---- MODULE Spec2Model ----
(***************************************************************************)
(* Model of the repost bot: src/twitter/post_repost.py (safe_api_call      *)
(* retries with backoff, the "Backoff" policy) and src/post_repost.py      *)
(* (safe_api_call exits the process on HTTP 429, the "Abort" policy).      *)
(* The two files share the pipeline pick_and_repost_from_slot and differ   *)
(* in safe_api_call; policy selects the file a behaviour runs.             *)
(***************************************************************************)
EXTENDS Integers, Sequences, FiniteSets, TLC

VARIABLES
    policy,      \* which file runs: "Backoff" (src/twitter/) or "Abort" (src/)
    overlap,     \* may invocations overlap (no external serialization)
    pool,        \* SOURCE_USERNAMES
    posts,       \* the remote timeline: live posts [id, author, photo]
    nextId,      \* the remote's next post id (ids only grow)
    histDoc,     \* HISTORY_FILE on disk
    sinceDoc,    \* SINCE_FILE on disk
    proc,        \* per invocation: the locals of pick_and_repost_from_slot
    runs,        \* invocations started so far
    published,   \* per post id: publish calls that returned success
    everHist,    \* every id string that was ever in a history set
    call,        \* one call of safe_api_call taken alone: its loop state
    clock        \* the rotation taken alone: a day observed minute by minute

vars == <<policy, overlap, pool, posts, nextId, histDoc, sinceDoc, proc,
          runs, published, everHist, call, clock>>

----------------------------------------------------------------------------
(* Bounds of the model *)

MaxRuns == 2
MaxPosts == 2
FirstId == 9
MAX_TWEETS_TO_FETCH == 2
MaxPool == 8

(* Program constants *)

max_retries == 4
SLOTS == 7
DAY_MINUTES == 1440

Procs == {1, 2}
Sources == {"a", "b"}
Pools == {<<>>, <<"a", "b">>}
PostIds == FirstId .. (FirstId + MaxPosts - 1)
Minutes == {0, 205, 206, 1439}

None == <<>>

----------------------------------------------------------------------------
(* str(n) and int(s): decimal strings as digit sequences *)

RECURSIVE ToStr(_)
ToStr(n) == IF n < 10 THEN <<n>> ELSE ToStr(n \div 10) \o <<n % 10>>

RECURSIVE ToInt(_)
ToInt(s) == IF Len(s) = 0 THEN 0
            ELSE 10 * ToInt(SubSeq(s, 1, Len(s) - 1)) + s[Len(s)]

MaxOf(S) == CHOOSE x \in S : \A y \in S : y <= x

(* highest = max(int(t.id) for (t, _) in tweets); str(highest) *)
RECURSIVE LexLess(_, _)
LexLess(s, t) ==
    IF Len(s) = 0 THEN Len(t) > 0
    ELSE IF Len(t) = 0 THEN FALSE
    ELSE IF s[1] # t[1] THEN s[1] < t[1]
    ELSE LexLess(Tail(s), Tail(t))

(* faulty variant: the greatest id taken over the decimal strings *)
Highest_lex(tweets) ==
    LET S == {ToStr(i) : i \in tweets}
    IN CHOOSE x \in S : \A y \in S : y = x \/ LexLess(y, x)

Highest(tweets) == ToStr(MaxOf(tweets))

(* Python dict: a function whose domain is the set of keys present *)
EmptyDict == [k \in {} |-> None]
DictGet(d, k) == IF k \in DOMAIN d THEN d[k] ELSE None
DictPut(d, k, v) == [x \in (DOMAIN d) \cup {k} |-> IF x = k THEN v ELSE d[x]]

----------------------------------------------------------------------------
(* Persisted documents: a file is missing, unparsable, holds a value of  *)
(* the shape the program writes, or holds other well-formed JSON ("null") *)

MissingDoc == [st |-> "missing", val |-> None]
CorruptDoc == [st |-> "corrupt", val |-> None]
OkDoc(v) == [st |-> "ok", val |-> v]
ForeignDoc(j) == [st |-> "foreign", val |-> j]

(* set(json.loads(text)): json.loads raises on unparsable text and set()  *)
(* raises on null; both exceptions are caught and the empty set returned  *)
load_history(doc) == IF doc.st = "ok" THEN doc.val ELSE {}

(* json.loads(text) is returned as it is, whatever its type *)
load_since_ids(doc) ==
    IF doc.st \in {"ok", "foreign"} THEN doc.val ELSE EmptyDict

(* Path.write_text opens the file for writing (truncating it) and then     *)
(* writes; the exception of either step is swallowed by the caller.        *)
WriteOutcomes == {"ok", "open_failed", "write_failed"}

write_text(doc, v, out) ==
    CASE out = "ok" -> OkDoc(v)
      [] out = "open_failed" -> doc
      [] out = "write_failed" -> CorruptDoc

save_history(doc, s, out) == write_text(doc, s, out)

save_since_ids(doc, d, out) == write_text(doc, d, out)

----------------------------------------------------------------------------
(* Rotation *)

(* faulty variant: the slot length rounded down to whole minutes *)
current_slot_index_7_whole(minute) == minute \div (DAY_MINUTES \div SLOTS)

(* int(minutes // ((24 * 60) / 7.0)): the floor of minute * 7 / 1440; the  *)
(* quotient is an integer at minute 0 alone and is elsewhere at least      *)
(* 1/1440 away from one, far more than the rounding of the float division  *)
current_slot_index_7(minute) == (minute * SLOTS) \div DAY_MINUTES

SelectSource(pl, slot) == pl[(slot % Len(pl)) + 1]

(* the rotation taken alone: no minute observed yet; count holds, per slot *)
(* index returned so far, the number of minutes that returned it; selected *)
(* holds the sources selected so far                                       *)
NoClock == [minute |-> -1, slot |-> 0, prev |-> 0, account_index |-> 0,
            source_user |-> None, count |-> [k \in {} |-> 0],
            selected |-> {}]

(* SOURCE_USERNAMES of every length from 1 to MaxPool *)
SlotPools == {[i \in 1 .. n |-> <<"user", i>>] : n \in 1 .. MaxPool}

----------------------------------------------------------------------------
(* The remote: list-recent-posts (client_v2.get_users_tweets) and the      *)
(* photo filter of get_recent_media_tweets                                 *)

RECURSIVE TopN(_, _)
TopN(S, n) == IF n = 0 \/ S = {} THEN {}
              ELSE LET m == MaxOf(S) IN {m} \cup TopN(S \ {m}, n - 1)

UsersTweets(ps, user, max_results, since_id) ==
    LET mine == {r.id : r \in {q \in ps : q.author = user}}
        newer == IF since_id # None THEN {i \in mine : i > ToInt(since_id)}
                 ELSE mine
    IN TopN(newer, max_results)

MediaTweets(ps, user, max_results, since_id) ==
    {i \in UsersTweets(ps, user, max_results, since_id) :
        \E r \in ps : r.id = i /\ r.photo}

----------------------------------------------------------------------------
(* safe_api_call: what it does with the outcome of one call of func.       *)
(* kind: "ok", "TooManyRequests" (tweepy), "HTTP429" (requests HTTPError   *)
(* with status 429), "HTTPError" (other status), "RequestException",       *)
(* "Exception".  hint: the x-rate-limit-reset header: "none", "valid",     *)
(* "bad" (not an integer).                                                 *)

Kinds == {"ok", "TooManyRequests", "HTTP429", "HTTPError",
          "RequestException", "Exception"}
FailKinds == Kinds \ {"ok"}
RateLimitKinds == {"TooManyRequests", "HTTP429"}
Hints == {"none", "valid", "bad"}

Outcomes == {[kind |-> k, hint |-> "none"] : k \in Kinds}
            \cup {[kind |-> k, hint |-> h] : k \in RateLimitKinds, h \in Hints}

(* in the pipeline the hint changes only the length of a sleep: the       *)
(* stages of the upload chain and the download draw outcomes without it    *)
CallOutcomes == {o \in Outcomes : o.hint = "none"}

Decision(act, attempt, wait) == [act |-> act, attempt |-> attempt, wait |-> wait]

(* faulty variant: the ceiling compared with >=, one invocation short *)
safe_api_call_backoff_short(attempt, o) ==
    CASE o.kind = "ok" -> Decision("return", attempt, "none")
      [] o.kind \in RateLimitKinds ->
            IF attempt + 1 >= max_retries
            THEN Decision("raise", attempt + 1, "none")
            ELSE Decision("retry", attempt + 1,
                          IF o.hint = "valid" THEN "reset" ELSE "backoff")
      [] o.kind = "RequestException" ->
            IF attempt + 1 > max_retries
            THEN Decision("raise", attempt + 1, "none")
            ELSE Decision("retry", attempt + 1, "backoff")
      [] OTHER -> Decision("raise", attempt, "none")

(* faulty variant: every HTTPError is handled as a 429, whatever its code *)
safe_api_call_backoff_anycode(attempt, o) ==
    CASE o.kind = "ok" -> Decision("return", attempt, "none")
      [] o.kind \in RateLimitKinds \cup {"HTTPError"} ->
            IF attempt + 1 > max_retries
            THEN Decision("raise", attempt + 1, "none")
            ELSE Decision("retry", attempt + 1,
                          IF o.hint = "valid" THEN "reset" ELSE "backoff")
      [] o.kind = "RequestException" ->
            IF attempt + 1 > max_retries
            THEN Decision("raise", attempt + 1, "none")
            ELSE Decision("retry", attempt + 1, "backoff")
      [] OTHER -> Decision("raise", attempt, "none")

(* faulty variant: a network failure is retried without being counted *)
safe_api_call_backoff_uncounted(attempt, o) ==
    CASE o.kind = "ok" -> Decision("return", attempt, "none")
      [] o.kind \in RateLimitKinds ->
            IF attempt + 1 > max_retries
            THEN Decision("raise", attempt + 1, "none")
            ELSE Decision("retry", attempt + 1,
                          IF o.hint = "valid" THEN "reset" ELSE "backoff")
      [] o.kind = "RequestException" ->
            IF attempt >= max_retries
            THEN Decision("raise", attempt, "none")
            ELSE Decision("retry", attempt, "backoff")
      [] OTHER -> Decision("raise", attempt, "none")

(* src/twitter/post_repost.py *)
safe_api_call_backoff(attempt, o) ==
    CASE o.kind = "ok" -> Decision("return", attempt, "none")
      [] o.kind \in RateLimitKinds ->
            IF attempt + 1 > max_retries
            THEN Decision("raise", attempt + 1, "none")
            ELSE Decision("retry", attempt + 1,
                          IF o.hint = "valid" THEN "reset" ELSE "backoff")
      [] o.kind = "RequestException" ->
            IF attempt + 1 > max_retries
            THEN Decision("raise", attempt + 1, "none")
            ELSE Decision("retry", attempt + 1, "backoff")
      [] OTHER -> Decision("raise", attempt, "none")

(* src/post_repost.py *)
safe_api_call_abort(attempt, o) ==
    CASE o.kind = "ok" -> Decision("return", attempt, "none")
      [] o.kind \in RateLimitKinds -> Decision("exit", attempt, "none")
      [] OTHER -> Decision("raise", attempt, "none")

safe_api_call(pol, attempt, o) ==
    IF pol = "Backoff" THEN safe_api_call_backoff(attempt, o)
    ELSE safe_api_call_abort(attempt, o)

(* One whole call safe_api_call(func): func signals script[1], the wrapper *)
(* decides, and while it decides to sleep and loop func is invoked again   *)
(* and signals the next outcome of the script.  The result is the          *)
(* wrapper's last decision with the outcome that led to it; act = "retry"  *)
(* when the script ends before the wrapper does.                           *)
RECURSIVE RunCall(_, _, _)
RunCall(pol, attempt, script) ==
    LET o == Head(script)
        d == safe_api_call(pol, attempt, o)
    IN IF d.act = "retry" /\ Len(script) > 1
       THEN RunCall(pol, d.attempt, Tail(script))
       ELSE [act |-> d.act, last |-> o]

Repeat(o, k) == [i \in 1 .. k |-> o]

Signal(k) == [kind |-> k, hint |-> "none"]

(* what func signals over the invocations of one wrapped call of the      *)
(* pipeline: success or a fatal error at once, success after a retried     *)
(* failure, or the same failure at every invocation                        *)
CallScripts ==
    {<<Signal("ok")>>, <<Signal("Exception")>>,
     <<Signal("TooManyRequests"), Signal("ok")>>,
     <<Signal("RequestException"), Signal("TooManyRequests"), Signal("ok")>>,
     Repeat(Signal("TooManyRequests"), max_retries + 1),
     Repeat(Signal("RequestException"), max_retries + 1)}

(* the loop of safe_api_call around one wrapped function: log holds, per  *)
(* invocation of func, what it signalled and the sleep that followed       *)
NewCall == [st |-> "running", attempt |-> 0, log |-> <<>>]

----------------------------------------------------------------------------
(* upload_media_with_fallback: direct, chunked, convert-to-JPEG then       *)
(* direct.  The exception of stages 1 and 2 is swallowed; the exception of *)
(* stage 3 is raised to the caller.                                        *)

StageName == <<"direct", "chunked", "jpeg">>

upload_media_with_fallback(stage, o) ==
    CASE o.kind = "ok" -> "return"
      [] o.kind # "ok" /\ stage < 3 -> "next"
      [] OTHER -> "raise"

----------------------------------------------------------------------------
(* The locals of one invocation of pick_and_repost_from_slot *)

IdleProc ==
    [pc |-> "idle", since_ids |-> EmptyDict, history |-> {},
     source_user |-> None, last_seen |-> None, fetchNo |-> 0, attempt |-> 0,
     tweets |-> {}, tid |-> None, stage |-> 0,
     chain |-> <<>>, exhausted |-> FALSE,
     media_id |-> "none", v2 |-> "none", v1 |-> "none",
     posted |-> "none", result |-> "none",
     histSaved |-> "none", sinceSaved |-> "none",
     lastRL |-> FALSE, fetchNet |-> FALSE,
     hist0 |-> MissingDoc, since0 |-> MissingDoc]

Running(p) == proc[p].pc \notin {"idle", "done"}

Set(p, r) == proc' = [proc EXCEPT ![p] = r]

(* return or sys.exit: the locals of safe_api_call and of the upload      *)
(* chain are gone                                                          *)
Finish(r, how) ==
    [r EXCEPT !.pc = "done", !.result = how, !.attempt = 0, !.stage = 0,
              !.chain = <<>>, !.exhausted = FALSE, !.media_id = "none"]

(* a remote call is made with outcome o.  Under the Abort policy, note    *)
(* whether this, the latest remote call of the run, signalled a rate       *)
(* limit (lastRL)                                                          *)
Called(r, o) ==
    IF policy = "Abort"
    THEN [r EXCEPT !.lastRL = o.kind \in RateLimitKinds]
    ELSE r

(* safe_api_call raised o to get_recent_media_tweets: note a network      *)
(* failure that the retrying wrapper surfaced from the fetch constrained   *)
(* by a stored cursor (fetchNet)                                           *)
Raised(r, o) ==
    [r EXCEPT !.fetchNet = @ \/ /\ policy = "Backoff"
                                /\ r.fetchNo = 1
                                /\ r.last_seen # None
                                /\ o.kind = "RequestException"]

(* faulty variant: no history filter *)
Candidates_unfiltered(tweets, history) == tweets

(* the candidate filter of pick_and_repost_from_slot *)

Candidates(tweets, history) == {i \in tweets : ToStr(i) \notin history}

(* faulty variant: a batch that is wholly in the history ends the run      *)
(* without moving the cursor                                                *)
AfterFetch_keep(r, out) ==
    IF r.fetchNo = 1
    THEN IF out = {}
         THEN {[r EXCEPT !.pc = "get_user", !.fetchNo = 2, !.attempt = 0]}
         ELSE IF Candidates(out, r.history) = {}
              THEN {Finish([r EXCEPT !.tweets = out], "all_seen")}
              ELSE {[r EXCEPT !.pc = "download", !.tweets = out,
                              !.attempt = 0, !.tid = ToStr(c)] :
                        c \in Candidates(out, r.history)}
    ELSE IF out # {}
         THEN {[r EXCEPT !.pc = "save_since_ids", !.tweets = out,
                         !.result = "advanced", !.attempt = 0,
                         !.since_ids = DictPut(@, r.source_user, Highest(out))]}
         ELSE {Finish(r, "no_tweets")}

(* faulty variant: the batch of the fetch without a cursor is treated as   *)
(* the first one, and a post of it that is not in the history is chosen    *)
AfterFetch_pick(r, out) ==
    IF out = {}
    THEN IF r.fetchNo = 1
         THEN {[r EXCEPT !.pc = "get_user", !.fetchNo = 2, !.attempt = 0]}
         ELSE {Finish(r, "no_tweets")}
    ELSE IF Candidates(out, r.history) = {}
         THEN {[r EXCEPT !.pc = "save_since_ids", !.tweets = out,
                         !.result = "all_seen", !.attempt = 0,
                         !.since_ids = DictPut(@, r.source_user, Highest(out))]}
         ELSE {[r EXCEPT !.pc = "download", !.tweets = out,
                         !.attempt = 0, !.tid = ToStr(c)] :
                   c \in Candidates(out, r.history)}

(* pick_and_repost_from_slot from the return of get_recent_media_tweets    *)
(* to its next call or save: the records the invocation may move to        *)
AfterFetch(r, out) ==
    IF r.fetchNo = 1
    THEN IF out = {}
         THEN {[r EXCEPT !.pc = "get_user", !.fetchNo = 2, !.attempt = 0]}
         ELSE IF Candidates(out, r.history) = {}
              THEN {[r EXCEPT !.pc = "save_since_ids", !.tweets = out,
                              !.result = "all_seen", !.attempt = 0,
                              !.since_ids =
                                  DictPut(@, r.source_user, Highest(out))]}
              ELSE {[r EXCEPT !.pc = "download", !.tweets = out,
                              !.attempt = 0, !.tid = ToStr(c)] :
                        c \in Candidates(out, r.history)}
    ELSE IF out # {}
         THEN {[r EXCEPT !.pc = "save_since_ids", !.tweets = out,
                         !.result = "advanced", !.attempt = 0,
                         !.since_ids = DictPut(@, r.source_user, Highest(out))]}
         ELSE {Finish(r, "no_tweets")}

(* the since_id argument of the current fetch *)
SinceArg(r) == IF r.fetchNo = 1 THEN r.last_seen ELSE None

----------------------------------------------------------------------------
Init0 ==
    /\ policy \in {"Backoff", "Abort"}
    /\ pool \in Pools
    /\ histDoc = MissingDoc
    /\ sinceDoc = MissingDoc
    /\ proc = [p \in Procs |-> IdleProc]
    /\ runs = 0
    /\ published = [i \in PostIds |-> 0]
    /\ everHist = {}
    /\ call = NewCall
    /\ clock = NoClock

Init == Init0 /\ posts = {} /\ nextId = FirstId /\ overlap = FALSE

(* two invocations triggered over timelines that already hold posts *)
InitOverlap ==
    /\ Init0
    /\ \E au \in [PostIds -> Sources] :
          posts = {[id |-> i, author |-> au[i], photo |-> TRUE] : i \in PostIds}
    /\ nextId = FirstId + MaxPosts
    /\ overlap = TRUE

----------------------------------------------------------------------------
(* The remote timeline changes: the sources post and delete *)

(* the timeline of a source is read by get_users_tweets for that source    *)
(* alone: its changes are taken where the next step of some invocation     *)
(* can observe them                                                        *)
Observed(s) ==
    \E p \in Procs : proc[p].pc = "get_users_tweets" /\ proc[p].source_user = s

NewPost ==
    /\ nextId \in PostIds
    /\ \E s \in Sources, ph \in BOOLEAN :
          /\ Observed(s)
          /\ posts' = posts \cup {[id |-> nextId, author |-> s, photo |-> ph]}
    /\ nextId' = nextId + 1
    /\ UNCHANGED <<call, clock, policy, overlap, pool, histDoc, sinceDoc, proc, runs,
                   published, everHist>>

DeletePost ==
    /\ \E r \in posts : Observed(r.author) /\ posts' = posts \ {r}
    /\ UNCHANGED <<call, clock, policy, overlap, pool, nextId, histDoc, sinceDoc, proc,
                   runs, published, everHist>>

----------------------------------------------------------------------------
(* pick_and_repost_from_slot, one step per call that leaves the process *)

Env == <<call, clock, policy, overlap, pool, posts, nextId>>

(* entry; the empty-pool return; load_since_ids *)
Enter(p) ==
    /\ ~Running(p)
    /\ runs < MaxRuns
    /\ runs' = runs + 1
    /\ LET r == [IdleProc EXCEPT !.since0 = sinceDoc]
       IN IF Len(pool) = 0
          THEN Set(p, Finish(r, "empty_pool"))
          ELSE Set(p, [r EXCEPT !.pc = "load_history",
                                !.since_ids = load_since_ids(sinceDoc)])
    /\ UNCHANGED <<Env, histDoc, sinceDoc, published, everHist>>

(* the scheduler triggers a run: one at a time unless runs may overlap *)
Start(p) ==
    /\ overlap \/ (p = 1 /\ \A q \in Procs : ~Running(q))
    /\ Enter(p)

(* load_history; the slot and the source; last_seen *)
LoadHistory(p) ==
    /\ proc[p].pc = "load_history"
    /\ \E minute \in Minutes :
          LET r == proc[p]
              slot == current_slot_index_7(minute)
              src == SelectSource(pool, slot)
              r1 == [r EXCEPT !.hist0 = histDoc,
                              !.history = load_history(histDoc),
                              !.source_user = src]
          IN IF r.since0.st = "foreign"
             THEN (* since_ids is not a dict: since_ids.get raises *)
                  Set(p, Finish(r1, "crashed"))
             ELSE Set(p, [r1 EXCEPT !.pc = "get_user", !.fetchNo = 1,
                                    !.last_seen = DictGet(r.since_ids, src)])
    /\ UNCHANGED <<Env, histDoc, sinceDoc, runs, published, everHist>>

(* get_recent_media_tweets: safe_api_call(client_v2.get_user) *)
GetUser(p) ==
    /\ proc[p].pc = "get_user"
    /\ \E script \in CallScripts, data \in BOOLEAN :
          LET d == RunCall(policy, 0, script)
              r == Called(proc[p], d.last)
          IN /\ d.act # "retry"
             /\ (data = FALSE) => (script = <<Signal("ok")>>)
             /\ CASE d.act = "return" /\ data ->
                        Set(p, [r EXCEPT !.pc = "get_users_tweets"])
                  [] d.act = "return" /\ ~data ->
                        \E r2 \in AfterFetch(r, {}) : Set(p, r2)
                  [] d.act = "raise" ->
                        \E r2 \in AfterFetch(Raised(r, d.last), {}) : Set(p, r2)
                  [] d.act = "exit" ->
                        Set(p, Finish(r, "rate_limit_exit"))
    /\ UNCHANGED <<Env, histDoc, sinceDoc, runs, published, everHist>>

(* get_recent_media_tweets: safe_api_call(client_v2.get_users_tweets) and  *)
(* the photo filter                                                         *)
GetUsersTweets(p) ==
    /\ proc[p].pc = "get_users_tweets"
    /\ \E script \in CallScripts :
          LET d == RunCall(policy, 0, script)
              r == Called(proc[p], d.last)
              out == MediaTweets(posts, r.source_user, MAX_TWEETS_TO_FETCH,
                                 SinceArg(r))
          IN /\ d.act # "retry"
             /\ CASE d.act = "return" ->
                        \E r2 \in AfterFetch(r, out) : Set(p, r2)
                  [] d.act = "raise" ->
                        \E r2 \in AfterFetch(Raised(r, d.last), {}) : Set(p, r2)
                  [] d.act = "exit" ->
                        Set(p, Finish(r, "rate_limit_exit"))
    /\ UNCHANGED <<Env, histDoc, sinceDoc, runs, published, everHist>>

(* download_url_to_file: requests.get and raise_for_status, not wrapped in *)
(* safe_api_call; any exception ends the run                               *)
DownloadOutcomes == {o \in CallOutcomes : o.kind # "TooManyRequests"}

(* faulty variant: the chosen id is added to the history and flushed as   *)
(* soon as its media is downloaded, before any publish                     *)
Download_speculative(p) ==
    /\ proc[p].pc = "download"
    /\ \E o \in DownloadOutcomes :
          LET r == Called(proc[p], o)
          IN IF o.kind = "ok"
             THEN /\ Set(p, [r EXCEPT !.pc = "upload", !.stage = 1,
                                      !.attempt = 0,
                                      !.history = @ \cup {r.tid}])
                  /\ histDoc' = save_history(histDoc, r.history \cup {r.tid}, "ok")
             ELSE /\ Set(p, Finish(r, "download_failed"))
                  /\ histDoc' = histDoc
    /\ UNCHANGED <<Env, sinceDoc, runs, published, everHist>>

(* faulty variant: a failed download still advances and saves the cursor *)
Download_advancing(p) ==
    /\ proc[p].pc = "download"
    /\ \E o \in DownloadOutcomes :
          LET r == Called(proc[p], o)
          IN IF o.kind = "ok"
             THEN Set(p, [r EXCEPT !.pc = "upload", !.stage = 1, !.attempt = 0])
             ELSE Set(p, [r EXCEPT !.pc = "save_since_ids",
                                   !.result = "download_failed",
                                   !.since_ids = DictPut(@, r.source_user,
                                                         Highest(r.tweets))])
    /\ UNCHANGED <<Env, histDoc, sinceDoc, runs, published, everHist>>

Download(p) ==
    /\ proc[p].pc = "download"
    /\ \E o \in DownloadOutcomes :
          LET r == Called(proc[p], o)
          IN IF o.kind = "ok"
             THEN Set(p, [r EXCEPT !.pc = "upload", !.stage = 1, !.attempt = 0])
             ELSE Set(p, Finish(r, "download_failed"))
    /\ UNCHANGED <<Env, histDoc, sinceDoc, runs, published, everHist>>

(* faulty variant: a chain whose failure the wrapper surfaces goes on to  *)
(* the publish, with no media reference                                    *)
Upload_proceed(p) ==
    /\ proc[p].pc = "upload"
    /\ \E o \in CallOutcomes, converted \in BOOLEAN :
          LET r0 == proc[p]
              r == IF converted THEN Called(r0, o) ELSE r0
              u == upload_media_with_fallback(r.stage, o)
              d == safe_api_call(policy, r.attempt, o)
          IN /\ (converted = FALSE) => (r0.stage = 3 /\ o.kind = "Exception")
             /\ CASE u = "return" ->
                        Set(p, [r EXCEPT !.pc = "create_tweet", !.attempt = 0,
                                         !.stage = 0,
                                         !.chain = Append(@, "returned"),
                                         !.media_id = StageName[r.stage]])
                  [] u = "next" ->
                        Set(p, [r EXCEPT !.stage = r.stage + 1,
                                         !.chain = Append(@, "raised")])
                  [] u = "raise" /\ d.act = "retry" ->
                        Set(p, [r EXCEPT !.stage = 1, !.attempt = d.attempt,
                                         !.chain = <<>>, !.exhausted = TRUE])
                  [] u = "raise" /\ d.act = "raise" ->
                        Set(p, [r EXCEPT !.pc = "create_tweet", !.attempt = 0,
                                         !.stage = 0, !.chain = <<>>])
                  [] u = "raise" /\ d.act = "exit" ->
                        Set(p, Finish(r, "rate_limit_exit"))
    /\ UNCHANGED <<Env, histDoc, sinceDoc, runs, published, everHist>>

(* safe_api_call(upload_media_with_fallback): one stage of the chain.      *)
(* converted = FALSE: the JPEG conversion of stage 3 raised, no call made  *)
(* chain: the outcomes of the stages of the current pass; exhausted: the  *)
(* third stage raised and the wrapper ran the chain again                  *)
Upload(p) ==
    /\ proc[p].pc = "upload"
    /\ \E o \in CallOutcomes, converted \in BOOLEAN :
          LET r0 == proc[p]
              r == IF converted THEN Called(r0, o) ELSE r0
              u == upload_media_with_fallback(r.stage, o)
              d == safe_api_call(policy, r.attempt, o)
          IN /\ (converted = FALSE) => (r0.stage = 3 /\ o.kind = "Exception")
             /\ CASE u = "return" ->
                        Set(p, [r EXCEPT !.pc = "create_tweet", !.attempt = 0,
                                         !.stage = 0,
                                         !.chain = Append(@, "returned"),
                                         !.media_id = StageName[r.stage]])
                  [] u = "next" ->
                        Set(p, [r EXCEPT !.stage = r.stage + 1,
                                         !.chain = Append(@, "raised")])
                  [] u = "raise" /\ d.act = "retry" ->
                        Set(p, [r EXCEPT !.stage = 1, !.attempt = d.attempt,
                                         !.chain = <<>>, !.exhausted = TRUE])
                  [] u = "raise" /\ d.act = "raise" ->
                        Set(p, Finish(r, "upload_failed"))
                  [] u = "raise" /\ d.act = "exit" ->
                        Set(p, Finish(r, "rate_limit_exit"))
    /\ UNCHANGED <<Env, histDoc, sinceDoc, runs, published, everHist>>

(* a publish call, given media_ids=[media_id], returned success:          *)
(* history.add(tid)                                                        *)
Posted(p, r, surface) ==
    /\ Set(p, [r EXCEPT !.pc = "save_history", !.attempt = 0,
                        !.posted = surface,
                        ![surface] = "returned",
                        !.history = @ \cup {r.tid}])
    /\ published' = [published EXCEPT ![ToInt(r.tid)] = @ + 1]
    /\ everHist' = everHist \cup {r.tid}

(* faulty variant: the fallback is not confined to the failure of the     *)
(* primary publish and runs after its success too                          *)
CreateTweet_fallthrough(p) ==
    /\ proc[p].pc = "create_tweet"
    /\ \E script \in CallScripts :
          LET d == RunCall(policy, 0, script)
              r == Called(proc[p], d.last)
          IN /\ d.act # "retry"
             /\ CASE d.act = "return" ->
                        /\ Set(p, [r EXCEPT !.pc = "update_status",
                                            !.posted = "v2",
                                            !.v2 = "returned",
                                            !.history = @ \cup {r.tid}])
                        /\ published' =
                               [published EXCEPT ![ToInt(r.tid)] = @ + 1]
                        /\ everHist' = everHist \cup {r.tid}
                  [] d.act = "raise" ->
                        /\ Set(p, [r EXCEPT !.pc = "update_status",
                                            !.v2 = "raised"])
                        /\ UNCHANGED <<published, everHist>>
                  [] d.act = "exit" ->
                        /\ Set(p, Finish([r EXCEPT !.v2 = "exited"],
                                         "rate_limit_exit"))
                        /\ UNCHANGED <<published, everHist>>
    /\ UNCHANGED <<Env, histDoc, sinceDoc, runs>>

(* safe_api_call(client_v2.create_tweet) *)
CreateTweet(p) ==
    /\ proc[p].pc = "create_tweet"
    /\ \E script \in CallScripts :
          LET d == RunCall(policy, 0, script)
              r == Called(proc[p], d.last)
          IN /\ d.act # "retry"
             /\ CASE d.act = "return" -> Posted(p, r, "v2")
                  [] d.act = "raise" ->
                        /\ Set(p, [r EXCEPT !.pc = "update_status",
                                            !.v2 = "raised"])
                        /\ UNCHANGED <<published, everHist>>
                  [] d.act = "exit" ->
                        /\ Set(p, Finish([r EXCEPT !.v2 = "exited"],
                                         "rate_limit_exit"))
                        /\ UNCHANGED <<published, everHist>>
    /\ UNCHANGED <<Env, histDoc, sinceDoc, runs>>

(* the fallback: safe_api_call(api_v1.update_status) *)
UpdateStatus(p) ==
    /\ proc[p].pc = "update_status"
    /\ \E script \in CallScripts :
          LET d == RunCall(policy, 0, script)
              r == Called(proc[p], d.last)
          IN /\ d.act # "retry"
             /\ CASE d.act = "return" -> Posted(p, r, "v1")
                  [] d.act = "raise" ->
                        /\ Set(p, Finish([r EXCEPT !.v1 = "raised"],
                                         "publish_failed"))
                        /\ UNCHANGED <<published, everHist>>
                  [] d.act = "exit" ->
                        /\ Set(p, Finish([r EXCEPT !.v1 = "exited"],
                                         "rate_limit_exit"))
                        /\ UNCHANGED <<published, everHist>>
    /\ UNCHANGED <<Env, histDoc, sinceDoc, runs>>

(* faulty variant: the commit flushes the cursor first and leaves the     *)
(* history for later                                                       *)
SaveHistory_cursor_first(p) ==
    /\ proc[p].pc = "save_history"
    /\ \E w \in WriteOutcomes :
          LET r == proc[p]
              d == DictPut(r.since_ids, r.source_user, Highest(r.tweets))
          IN /\ sinceDoc' = save_since_ids(sinceDoc, d, w)
             /\ Set(p, [r EXCEPT !.pc = "save_since_ids",
                                 !.result = "published",
                                 !.chain = <<>>, !.exhausted = FALSE,
                                 !.media_id = "none",
                                 !.since_ids = d])
    /\ UNCHANGED <<Env, histDoc, runs, published, everHist>>

(* faulty variant: the commit moves the cursor to the chosen id, not to   *)
(* the highest id of the batch                                             *)
SaveHistory_chosen(p) ==
    /\ proc[p].pc = "save_history"
    /\ \E w \in WriteOutcomes :
          LET r == proc[p]
          IN /\ histDoc' = save_history(histDoc, r.history, w)
             /\ Set(p, [r EXCEPT !.pc = "save_since_ids",
                                 !.result = "published", !.histSaved = w,
                                 !.chain = <<>>, !.exhausted = FALSE,
                                 !.media_id = "none",
                                 !.since_ids =
                                     DictPut(@, r.source_user, r.tid)])
    /\ UNCHANGED <<Env, sinceDoc, runs, published, everHist>>

(* the commit: save_history(history), then since_ids[source_user] =        *)
(* str(highest) over the whole batch                                       *)
SaveHistory(p) ==
    /\ proc[p].pc = "save_history"
    /\ \E w \in WriteOutcomes :
          LET r == proc[p]
          IN /\ histDoc' = save_history(histDoc, r.history, w)
             /\ Set(p, [r EXCEPT !.pc = "save_since_ids",
                                 !.result = "published", !.histSaved = w,
                                 !.chain = <<>>, !.exhausted = FALSE,
                                 !.media_id = "none",
                                 !.since_ids =
                                     DictPut(@, r.source_user,
                                             Highest(r.tweets))])
    /\ UNCHANGED <<Env, sinceDoc, runs, published, everHist>>

(* save_since_ids(since_ids): after a publish, on the all-in-history path  *)
(* and on the cursor-advance-only path; then the run returns               *)
SaveSinceIds(p) ==
    /\ proc[p].pc = "save_since_ids"
    /\ \E w \in WriteOutcomes :
          /\ sinceDoc' = save_since_ids(sinceDoc, proc[p].since_ids, w)
          /\ Set(p, [proc[p] EXCEPT !.pc = "done", !.sinceSaved = w])
    /\ UNCHANGED <<Env, histDoc, runs, published, everHist>>

----------------------------------------------------------------------------
Next ==
    \/ NewPost
    \/ DeletePost
    \/ \E p \in Procs : Start(p)
    \/ \E p \in Procs : LoadHistory(p)
    \/ \E p \in Procs : GetUser(p)
    \/ \E p \in Procs : GetUsersTweets(p)
    \/ \E p \in Procs : Download(p)
    \/ \E p \in Procs : Upload(p)
    \/ \E p \in Procs : CreateTweet(p)
    \/ \E p \in Procs : UpdateStatus(p)
    \/ \E p \in Procs : SaveHistory(p)
    \/ \E p \in Procs : SaveSinceIds(p)

----------------------------------------------------------------------------
(* safe_api_call taken alone: func is invoked, signals an outcome, and the *)
(* wrapper returns, sleeps and loops, raises, or exits                     *)

Invoke ==
    /\ call.st = "running"
    /\ \E o \in Outcomes :
          LET d == safe_api_call(policy, call.attempt, o)
          IN call' = [st |-> CASE d.act = "return" -> "returned"
                               [] d.act = "retry" -> "running"
                               [] d.act = "raise" -> "raised"
                               [] d.act = "exit" -> "exited",
                      attempt |-> d.attempt,
                      log |-> Append(call.log,
                                     [kind |-> o.kind, hint |-> o.hint,
                                      wait |-> d.wait])]
    /\ UNCHANGED <<clock, policy, overlap, pool, posts, nextId, histDoc,
                   sinceDoc, proc, runs, published, everHist>>

InitCall == Init0 /\ posts = {} /\ nextId = FirstId /\ overlap = FALSE

NextCall == Invoke

SpecCall == InitCall /\ [][NextCall]_vars

----------------------------------------------------------------------------
(* current_slot_index_7 and the source selection taken alone, at each      *)
(* minute of a day in turn                                                 *)

Observe ==
    /\ clock.minute + 1 < DAY_MINUTES
    /\ LET minute == clock.minute + 1
           slot == current_slot_index_7(minute)
           account_index == slot % Len(pool)
       IN clock' = [minute |-> minute,
                    slot |-> slot,
                    prev |-> IF clock.minute < 0 THEN slot ELSE clock.slot,
                    account_index |-> account_index,
                    source_user |-> SelectSource(pool, slot),
                    count |-> [k \in DOMAIN clock.count \cup {slot} |->
                                 IF k \in DOMAIN clock.count
                                 THEN clock.count[k] + (IF k = slot THEN 1 ELSE 0)
                                 ELSE 1],
                    selected |-> clock.selected \cup {SelectSource(pool, slot)}]
    /\ UNCHANGED <<call, policy, overlap, posts, nextId, pool, histDoc,
                   sinceDoc, proc, runs, published, everHist>>

InitSlot ==
    /\ policy \in {"Backoff", "Abort"}
    /\ pool \in SlotPools
    /\ posts = {}
    /\ nextId = FirstId
    /\ overlap = FALSE
    /\ histDoc = MissingDoc
    /\ sinceDoc = MissingDoc
    /\ proc = [p \in Procs |-> IdleProc]
    /\ runs = 0
    /\ published = [i \in PostIds |-> 0]
    /\ everHist = {}
    /\ call = NewCall
    /\ clock = NoClock

NextSlot == Observe

SpecSlot == InitSlot /\ [][NextSlot]_vars

----------------------------------------------------------------------------
(* runs serialized by the scheduler *)
Spec == Init /\ [][Next]_vars

(* each process is one invocation, started once *)
StartOnce(p) == proc[p].pc = "idle" /\ Start(p)

(* One run over state documents found on disk in any condition *)
FoundHistory ==
    {MissingDoc, CorruptDoc, ForeignDoc("null"), OkDoc({ToStr(FirstId)})}
FoundSinceIds ==
    {MissingDoc, CorruptDoc, ForeignDoc("null"),
     OkDoc(DictPut(EmptyDict, "a", ToStr(FirstId)))}

InitLoad ==
    /\ policy \in {"Backoff", "Abort"}
    /\ pool = <<"a", "b">>
    /\ histDoc \in FoundHistory
    /\ sinceDoc \in FoundSinceIds
    /\ proc = [p \in Procs |-> IdleProc]
    /\ runs = 0
    /\ published = [i \in PostIds |-> 0]
    /\ everHist = {}
    /\ call = NewCall
    /\ clock = NoClock
    /\ \E au \in [PostIds -> Sources] :
          posts = {[id |-> i, author |-> au[i], photo |-> TRUE] : i \in PostIds}
    /\ nextId = FirstId + MaxPosts
    /\ overlap = FALSE

NextOverlap ==
    \/ \E p \in Procs : StartOnce(p)
    \/ \E p \in Procs : LoadHistory(p)
    \/ \E p \in Procs : GetUser(p)
    \/ \E p \in Procs : GetUsersTweets(p)
    \/ \E p \in Procs : Download(p)
    \/ \E p \in Procs : Upload(p)
    \/ \E p \in Procs : CreateTweet(p)
    \/ \E p \in Procs : UpdateStatus(p)
    \/ \E p \in Procs : SaveHistory(p)
    \/ \E p \in Procs : SaveSinceIds(p)

(* overlapping invocations: the scheduler triggers a second run while the *)
(* first has not ended                                                     *)
SpecOverlap == InitOverlap /\ [][NextOverlap]_vars

SpecLoad == InitLoad /\ [][NextOverlap]_vars

(* Serialized runs, the record of the first run that committed a publish  *)
(* with both saves done being kept: that run is process 1, every later    *)
(* run is process 2, followed for as long as its saves succeed.           *)
Committed ==
    /\ proc[1].pc = "done"
    /\ proc[1].posted # "none"
    /\ proc[1].histSaved = "ok"
    /\ proc[1].sinceSaved = "ok"

SavesSucceed(p) ==
    /\ proc[p].histSaved \in {"none", "ok"}
    /\ proc[p].sinceSaved \in {"none", "ok"}

StartSerial(p) ==
    /\ \A q \in Procs : ~Running(q)
    /\ IF Committed THEN p = 2 /\ SavesSucceed(2) ELSE p = 1
    /\ Enter(p)

NextSerial ==
    \/ NewPost
    \/ DeletePost
    \/ \E p \in Procs : StartSerial(p)
    \/ \E p \in Procs : LoadHistory(p)
    \/ \E p \in Procs : GetUser(p)
    \/ \E p \in Procs : GetUsersTweets(p)
    \/ \E p \in Procs : Download(p)
    \/ \E p \in Procs : Upload(p)
    \/ \E p \in Procs : CreateTweet(p)
    \/ \E p \in Procs : UpdateStatus(p)
    \/ \E p \in Procs : SaveHistory(p)
    \/ \E p \in Procs : SaveSinceIds(p)

SpecSerial == Init /\ [][NextSerial]_vars

(* The program is single-threaded and synchronous: a started run executes *)
(* its next statement, every remote call returns or raises and every      *)
(* sleep ends.                                                             *)
Step(p) ==
    \/ LoadHistory(p)
    \/ GetUser(p)
    \/ GetUsersTweets(p)
    \/ Download(p)
    \/ Upload(p)
    \/ CreateTweet(p)
    \/ UpdateStatus(p)
    \/ SaveHistory(p)
    \/ SaveSinceIds(p)

SpecLive ==
    /\ InitLoad
    /\ [][NextOverlap]_vars
    /\ \A p \in Procs : WF_vars(Step(p))

----------------------------------------------------------------------------
(* Claims *)

Chosen(p) == proc[p].tid # None

Ended(p) == proc[p].pc = "done"

(* C1, as stated: a post whose id was ever in a HistorySet (in memory or  *)
(* persisted, in this or an earlier run) is never the post chosen for      *)
(* publish.                                                                *)
C1_NeverChosenOnceInHistory ==
    \A p \in Procs :
        (Chosen(p) /\ proc[p].posted = "none") => proc[p].tid \notin everHist

(* C1, amended: the post chosen for publish is never one whose id is in   *)
(* the HistorySet document the run loaded.                                 *)
C1_ChosenNotInLoadedHistory ==
    \A p \in Procs :
        Chosen(p) => proc[p].tid \notin load_history(proc[p].hist0)

(* a run has chosen a post from a batch of which the filter removed one *)
C1_Witness ==
    \E p \in Procs :
        /\ Chosen(p)
        /\ \E i \in proc[p].tweets : ToStr(i) \in load_history(proc[p].hist0)

(* C2, as stated: two invocations that have both published and of which  *)
(* neither has committed yet (both loaded the documents before either      *)
(* commit) have not published the same post.                               *)
C2_OverlapNoDuplicate ==
    \A p, q \in Procs :
        (p # q /\ proc[p].pc = "save_history" /\ proc[q].pc = "save_history") =>
            proc[p].tid # proc[q].tid

(* C2, amended: two invocations publish the same post only if neither     *)
(* loaded a HistorySet document that holds the other's commit.             *)
C2_DuplicateOnlyUnseenCommit ==
    \A p, q \in Procs :
        (p # q /\ proc[p].posted # "none" /\ proc[q].posted # "none"
            /\ proc[p].tid = proc[q].tid) =>
            /\ proc[p].tid \notin load_history(proc[q].hist0)
            /\ proc[q].tid \notin load_history(proc[p].hist0)

(* one invocation loaded the other's commit, which removed a post of its  *)
(* batch, and published another post                                       *)
C2_Witness ==
    \E p, q \in Procs :
        /\ p # q
        /\ proc[p].posted # "none"
        /\ proc[q].posted # "none"
        /\ proc[p].tid \in load_history(proc[q].hist0)
        /\ ToInt(proc[p].tid) \in proc[q].tweets

(* C3: for every source, the persisted CursorMap entry is, after a run    *)
(* that saved the document, numerically no lower than before the run.      *)
C3_CursorNeverDecreases ==
    \A p \in Procs :
        (Ended(p) /\ proc[p].sinceSaved = "ok" /\ proc[p].since0.st = "ok") =>
            \A s \in DOMAIN proc[p].since0.val :
                /\ s \in DOMAIN sinceDoc.val
                /\ ToInt(sinceDoc.val[s]) >= ToInt(proc[p].since0.val[s])

(* C4: a HistorySet differs from the one the run loaded only by the       *)
(* chosen id and only once a publish call for it has returned success: the *)
(* in-memory set is the loaded set until then, and the document is left    *)
(* alone until the save that follows the publish.                          *)
C4_HistoryOnlyAfterPublish ==
    \A p \in Procs :
        proc[p].pc \notin {"idle", "load_history"} =>
            /\ proc[p].history =
                   load_history(proc[p].hist0)
                       \cup (IF proc[p].posted # "none" THEN {proc[p].tid} ELSE {})
            /\ proc[p].posted # "none" => published[ToInt(proc[p].tid)] >= 1
            /\ proc[p].histSaved = "none" => histDoc = proc[p].hist0
            /\ proc[p].histSaved # "none" =>
                   /\ proc[p].posted # "none"
                   /\ load_history(histDoc) \subseteq
                          load_history(proc[p].hist0) \cup {proc[p].tid}

(* the legacy surface published and the id reached the document *)
C4_Witness ==
    \E p \in Procs :
        /\ Ended(p)
        /\ proc[p].posted = "v1"
        /\ proc[p].tid \in load_history(histDoc)

(* C5: a run that chose a candidate and ended without a successful        *)
(* publish leaves both documents as they were at its start.                *)
C5_FailedRunLeavesDocuments ==
    \A p \in Procs :
        (Ended(p) /\ Chosen(p) /\ proc[p].posted = "none") =>
            /\ histDoc = proc[p].hist0
            /\ sinceDoc = proc[p].since0

(* both publish surfaces failed, with documents that hold something *)
C5_Witness ==
    \E p \in Procs :
        /\ Ended(p)
        /\ proc[p].result = "publish_failed"
        /\ proc[p].hist0.st = "ok"
        /\ proc[p].since0.st = "ok"

(* C6, as stated: in a run where no publish succeeded neither document is *)
(* written.                                                                *)
C6_NoPublishNoWrite ==
    \A p \in Procs :
        (Ended(p) /\ proc[p].posted = "none") =>
            /\ proc[p].histSaved = "none"
            /\ proc[p].sinceSaved = "none"

(* C6, amended: in a run where no publish succeeded the HistorySet         *)
(* document is not written, and the CursorMap document is written only on  *)
(* the all-candidates-in-history path and on the cursor-advance-only path, *)
(* on which no candidate is chosen.                                        *)
C6_NoPublishWritesCursorOnly ==
    \A p \in Procs :
        (Ended(p) /\ proc[p].posted = "none") =>
            /\ proc[p].histSaved = "none"
            /\ proc[p].sinceSaved # "none" =>
                   /\ proc[p].result \in {"all_seen", "advanced"}
                   /\ ~Chosen(p)

(* a run without a publish wrote the CursorMap on the all-in-history path *)
C6_Witness ==
    \E p \in Procs :
        /\ Ended(p)
        /\ proc[p].result = "all_seen"
        /\ proc[p].sinceSaved = "ok"
        /\ sinceDoc # proc[p].since0

(* C7: after a run that published and whose two saves succeeded, the      *)
(* HistorySet document is the loaded set plus the chosen id, and the       *)
(* cursor of the selected source is the greatest id of the whole batch.    *)
C7_CommitAfterPublish ==
    \A p \in Procs :
        (Ended(p) /\ proc[p].posted # "none"
            /\ proc[p].histSaved = "ok" /\ proc[p].sinceSaved = "ok") =>
            /\ histDoc.st = "ok"
            /\ histDoc.val = load_history(proc[p].hist0) \cup {proc[p].tid}
            /\ proc[p].tid \notin load_history(proc[p].hist0)
            /\ sinceDoc.st = "ok"
            /\ proc[p].source_user \in DOMAIN sinceDoc.val
            /\ \A i \in proc[p].tweets :
                   i <= ToInt(sinceDoc.val[proc[p].source_user])
            /\ ToInt(sinceDoc.val[proc[p].source_user]) \in proc[p].tweets

(* the chosen post is not the greatest of its batch, and the batch holds  *)
(* a post the filter removed                                               *)
C7_Witness ==
    \E p \in Procs :
        /\ Ended(p)
        /\ proc[p].posted # "none"
        /\ proc[p].histSaved = "ok"
        /\ proc[p].sinceSaved = "ok"
        /\ ToInt(proc[p].tid) # MaxOf(proc[p].tweets)
        /\ \E i \in proc[p].tweets : ToStr(i) \in load_history(proc[p].hist0)

(* C8: under the Abort policy, a run whose latest remote call signalled   *)
(* RateLimited has ended: it is not in a position to make another call.    *)
C8_AbortEndsRunAt429 ==
    \A p \in Procs :
        (policy = "Abort" /\ proc[p].lastRL) => Ended(p)

AllRateLimited == \A i \in DOMAIN call.log : call.log[i].kind \in RateLimitKinds

(* C9: under Backoff, while every invocation of the wrapped function      *)
(* signals RateLimited, safe_api_call keeps calling up to max_retries + 1  *)
(* invocations, hint or no hint, and at the last one raises that           *)
(* RateLimited to its caller.                                              *)
C9_RateLimitedSurfacesAfterNPlusOne ==
    (policy = "Backoff" /\ AllRateLimited) =>
        \/ /\ call.st = "running"
           /\ Len(call.log) <= max_retries
           /\ call.attempt = Len(call.log)
        \/ /\ call.st = "raised"
           /\ Len(call.log) = max_retries + 1
           /\ \A i \in 1 .. max_retries : call.log[i].wait # "none"

(* RateLimited on every invocation, some with a reset hint and some       *)
(* without, has been raised to the caller                                  *)
C9_Witness ==
    /\ policy = "Backoff"
    /\ AllRateLimited
    /\ call.st = "raised"
    /\ \E i \in DOMAIN call.log : call.log[i].hint = "valid"
    /\ \E i \in DOMAIN call.log : call.log[i].hint = "none"
    /\ \E i \in DOMAIN call.log : call.log[i].hint = "bad"

(* C10: once the retrying wrapper has surfaced a network failure from the *)
(* cursor-constrained fetch, the run leaves both documents as it loaded    *)
(* them (a write that fails midway set aside).                             *)
C10_NetworkFailureMutatesNothing ==
    \A p \in Procs :
        (policy = "Backoff" /\ proc[p].fetchNet
            /\ proc[p].sinceSaved # "write_failed") =>
            /\ histDoc = proc[p].hist0
            /\ sinceDoc = proc[p].since0

(* C11: a save replaces the document atomically: once a run has saved    *)
(* over a full document, whatever happened during the save, the document a *)
(* load observes is the full old content or the full new content.          *)
C11_SaveIsAtomic ==
    \A p \in Procs :
        /\ (proc[p].histSaved # "none" /\ proc[p].hist0.st = "ok") =>
               histDoc \in {proc[p].hist0, OkDoc(proc[p].history)}
        /\ (proc[p].sinceSaved # "none" /\ proc[p].since0.st = "ok") =>
               sinceDoc \in {proc[p].since0, OkDoc(proc[p].since_ids)}

(* C12: for every non-empty pool and every minute of the day the slot    *)
(* index is in 0..6 and the selected source is an element of the pool.     *)
C12_SlotAndSourceInRange ==
    clock.minute >= 0 =>
        /\ clock.slot \in 0 .. 6
        /\ clock.account_index \in 0 .. Len(pool) - 1
        /\ \E i \in 1 .. Len(pool) : pool[i] = clock.source_user

(* the last minute of the day, with a pool shorter than the slot index *)
C12_Witness ==
    /\ clock.minute = DAY_MINUTES - 1
    /\ clock.slot >= Len(pool)
    /\ Len(pool) > 1

(* C13, as stated: over the minutes of a day the slot index never         *)
(* decreases, every index 0..6 occurs, and every slot holds the same       *)
(* number of minutes.                                                      *)
C13_EqualSlots ==
    /\ clock.prev <= clock.slot
    /\ clock.minute = DAY_MINUTES - 1 =>
           /\ DOMAIN clock.count = 0 .. 6
           /\ \A j, k \in DOMAIN clock.count : clock.count[j] = clock.count[k]

(* C13, amended: over the minutes of a day the slot index never decreases, *)
(* every index 0..6 occurs, and the numbers of minutes of two slots differ *)
(* by at most one.                                                         *)
C13_SlotsWithinOneMinute ==
    /\ clock.prev <= clock.slot
    /\ clock.minute = DAY_MINUTES - 1 =>
           /\ DOMAIN clock.count = 0 .. 6
           /\ \A j, k \in DOMAIN clock.count :
                  clock.count[j] - clock.count[k] <= 1

(* the whole day observed, with two slots of different lengths *)
C13_Witness ==
    /\ clock.minute = DAY_MINUTES - 1
    /\ \E j, k \in DOMAIN clock.count : clock.count[j] # clock.count[k]

(* C14: in a run at most one publish call returns success, and the legacy *)
(* surface is called only after the primary publish raised.                *)
C14_AtMostOnePublish ==
    \A p \in Procs :
        /\ ~(proc[p].v2 = "returned" /\ proc[p].v1 = "returned")
        /\ (proc[p].pc = "update_status" \/ proc[p].v1 # "none") =>
               proc[p].v2 = "raised"
        /\ (proc[p].v2 = "returned" \/ proc[p].v1 = "returned") <=>
               proc[p].posted # "none"

(* under Backoff the primary publish raised and the legacy one returned;  *)
(* the post was published once                                             *)
C14_Witness ==
    \E p \in Procs :
        /\ policy = "Backoff"
        /\ Ended(p)
        /\ proc[p].v2 = "raised"
        /\ proc[p].v1 = "returned"
        /\ published[ToInt(proc[p].tid)] = 1

(* C15: a missing or corrupt state document loads as the empty structure  *)
(* without raising, and the run goes on with that empty structure instead *)
(* of aborting.                                                            *)
C15_DamagedLoadsEmpty ==
    \A p \in Procs :
        (proc[p].pc \notin {"idle", "load_history"} /\ Len(pool) > 0) =>
            /\ proc[p].result # "crashed"
            /\ proc[p].since0.st # "ok" => proc[p].last_seen = None
            /\ proc[p].hist0.st # "ok" =>
                   proc[p].history \subseteq {proc[p].tid}

(* C16: when the first fetch returns a non-empty batch whose posts are    *)
(* all in the history, the run makes no download, upload or publish call, *)
(* sets the cursor of the selected source to the highest id of the batch  *)
(* and leaves the history unchanged.                                       *)
AllSeen(p) ==
    /\ proc[p].fetchNo = 1
    /\ proc[p].tweets # {}
    /\ \A t \in proc[p].tweets : ToStr(t) \in load_history(proc[p].hist0)

C16_AllSeenAdvancesCursorOnly ==
    \A p \in Procs :
        AllSeen(p) =>
            /\ proc[p].pc \in {"save_since_ids", "done"}
            /\ proc[p].tid = None
            /\ proc[p].stage = 0
            /\ proc[p].media_id = "none"
            /\ proc[p].v2 = "none" /\ proc[p].v1 = "none"
            /\ proc[p].posted = "none"
            /\ proc[p].history = load_history(proc[p].hist0)
            /\ proc[p].histSaved = "none"
            /\ histDoc = proc[p].hist0
            /\ DictGet(proc[p].since_ids, proc[p].source_user) =
                   Highest(proc[p].tweets)
            /\ Ended(p) => proc[p].sinceSaved # "none"
            /\ (Ended(p) /\ proc[p].sinceSaved = "ok") =>
                   sinceDoc = OkDoc(proc[p].since_ids)

(* a run that found its whole batch in the history has ended and has      *)
(* written the cursor                                                      *)
C16_Witness ==
    \E p \in Procs :
        /\ AllSeen(p)
        /\ Ended(p)
        /\ proc[p].sinceSaved = "ok"
        /\ DictGet(load_since_ids(proc[p].since0), proc[p].source_user) = None

(* C17: when the first fetch returns nothing the run makes one further    *)
(* fetch without a cursor and publishes nothing, whatever that fetch      *)
(* returns; the cursor of the selected source becomes the highest id of   *)
(* the second batch when there is one and the cursor map is left alone    *)
(* when there is none.                                                     *)
C17_CursorAdvanceOnly ==
    \A p \in Procs :
        /\ proc[p].fetchNo \in 0 .. 2
        /\ proc[p].fetchNo = 2 =>
               /\ proc[p].pc \in
                      {"get_user", "get_users_tweets", "save_since_ids", "done"}
               /\ SinceArg(proc[p]) = None
               /\ proc[p].tid = None
               /\ proc[p].stage = 0
               /\ proc[p].v2 = "none" /\ proc[p].v1 = "none"
               /\ proc[p].posted = "none"
               /\ proc[p].histSaved = "none"
               /\ histDoc = proc[p].hist0
        /\ (proc[p].fetchNo = 2 /\ proc[p].tweets # {}) =>
               /\ proc[p].pc \in {"save_since_ids", "done"}
               /\ DictGet(proc[p].since_ids, proc[p].source_user) =
                      Highest(proc[p].tweets)
               /\ Ended(p) => proc[p].sinceSaved # "none"
               /\ (Ended(p) /\ proc[p].sinceSaved = "ok") =>
                      sinceDoc = OkDoc(proc[p].since_ids)
        /\ (proc[p].fetchNo = 2 /\ proc[p].tweets = {}) =>
               /\ proc[p].since_ids = load_since_ids(proc[p].since0)
               /\ proc[p].sinceSaved = "none"
               /\ sinceDoc = proc[p].since0

(* the second fetch returned a post that is not in the history and the    *)
(* run ended with the cursor written and nothing published                 *)
C17_Witness ==
    \E p \in Procs :
        /\ proc[p].fetchNo = 2
        /\ Ended(p)
        /\ proc[p].sinceSaved = "ok"
        /\ \E t \in proc[p].tweets : ToStr(t) \notin proc[p].history
        /\ proc[p].posted = "none"

(* C18: the upload stages run in the order direct, chunked, convert and   *)
(* direct; a stage is attempted only if the one before raised and the     *)
(* first success ends the chain; the publish is given the reference of    *)
(* the stage that succeeded and no document is written before a publish   *)
(* succeeds; when the failure of the chain is surfaced no publish call is *)
(* made.                                                                   *)
ChainRaised(c, n) == Len(c) = n /\ \A i \in 1 .. n : c[i] = "raised"

UploadChain(p) ==
    /\ proc[p].pc = "upload" =>
           /\ proc[p].stage \in 1 .. 3
           /\ ChainRaised(proc[p].chain, proc[p].stage - 1)
           /\ proc[p].media_id = "none"
    /\ proc[p].media_id # "none" =>
           /\ Len(proc[p].chain) \in 1 .. 3
           /\ proc[p].chain[Len(proc[p].chain)] = "returned"
           /\ ChainRaised(SubSeq(proc[p].chain, 1, Len(proc[p].chain) - 1),
                          Len(proc[p].chain) - 1)
           /\ proc[p].media_id = StageName[Len(proc[p].chain)]
    /\ proc[p].pc \in {"create_tweet", "update_status", "save_history"} =>
           proc[p].media_id # "none"
    /\ proc[p].pc \in {"upload", "create_tweet", "update_status",
                       "save_history"} =>
           /\ proc[p].v2 \in {"none", "raised"} \/ proc[p].pc = "save_history"
           /\ proc[p].histSaved = "none" /\ proc[p].sinceSaved = "none"
           /\ histDoc = proc[p].hist0 /\ sinceDoc = proc[p].since0
    /\ proc[p].result = "upload_failed" =>
           /\ proc[p].v2 = "none" /\ proc[p].v1 = "none"
           /\ proc[p].posted = "none"
           /\ proc[p].histSaved = "none" /\ proc[p].sinceSaved = "none"
           /\ histDoc = proc[p].hist0 /\ sinceDoc = proc[p].since0

(* as stated: once all three stages have failed no publish call is made   *)
C18_ExhaustedNeverPublishes ==
    \A p \in Procs :
        /\ UploadChain(p)
        /\ proc[p].exhausted => (proc[p].v2 = "none" /\ proc[p].v1 = "none")

(* amended: no publish call is made when the wrapper surfaces the failure *)
(* of the chain; a chain that failed can be followed by a publish only    *)
(* under Backoff, where the wrapper ran the whole chain again              *)
C18_SurfacedFailureNeverPublishes ==
    \A p \in Procs :
        /\ UploadChain(p)
        /\ proc[p].exhausted => policy = "Backoff"

(* all three stages failed, the wrapper ran the chain again, the          *)
(* conversion stage succeeded and the publish was made with its reference *)
(* before any document was written                                         *)
C18_Witness ==
    \E p \in Procs :
        /\ proc[p].exhausted
        /\ proc[p].chain = <<"raised", "raised", "returned">>
        /\ proc[p].media_id = "jpeg"
        /\ proc[p].posted = "v2"
        /\ proc[p].histSaved = "none"
        /\ histDoc = proc[p].hist0 /\ sinceDoc = proc[p].since0

(* C19: under Backoff a failure that is neither RateLimited nor a network *)
(* failure, a non-429 HTTP error included, is raised at once: the wrapped *)
(* function is not invoked again and no sleep is made, however many       *)
(* retries came before.                                                    *)
FatalKinds == FailKinds \ (RateLimitKinds \cup {"RequestException"})

C19_FatalSurfacedAtOnce ==
    policy = "Backoff" =>
        \A i \in DOMAIN call.log :
            call.log[i].kind \in FatalKinds =>
                /\ i = Len(call.log)
                /\ call.st = "raised"
                /\ call.log[i].wait = "none"

(* a non-429 HTTP error raised after the whole retry budget was spent on  *)
(* rate limits and network failures                                        *)
C19_Witness ==
    /\ policy = "Backoff"
    /\ call.st = "raised"
    /\ Len(call.log) = max_retries + 1
    /\ call.log[Len(call.log)].kind = "HTTPError"
    /\ \E i \in DOMAIN call.log : call.log[i].kind = "RequestException"
    /\ \E i \in DOMAIN call.log : call.log[i].kind \in RateLimitKinds

(* C20: under Backoff RateLimited and network failures are counted by one *)
(* attempt counter: in any interleaving the wrapped function is invoked   *)
(* at most max_retries + 1 times, so a failure of one kind can be raised  *)
(* after fewer than max_retries retries of that kind.                     *)
Retried(kinds) == {i \in DOMAIN call.log : call.log[i].kind \in kinds}

C20_SharedAttemptCounter ==
    policy = "Backoff" =>
        /\ Len(call.log) <= max_retries + 1
        /\ call.attempt =
               Cardinality(Retried(RateLimitKinds \cup {"RequestException"}))
        /\ call.st = "running" => call.attempt = Len(call.log)
        /\ call.attempt > max_retries => call.st = "raised"

(* a network failure raised at its second occurrence, the rest of the     *)
(* budget having gone to rate limits                                       *)
C20_Witness ==
    /\ policy = "Backoff"
    /\ call.st = "raised"
    /\ call.log[Len(call.log)].kind = "RequestException"
    /\ Cardinality(Retried({"RequestException"})) = 2
    /\ Cardinality(Retried(RateLimitKinds)) = max_retries - 1

(* C23: over a day the source at pool index i is selected if and only if *)
(* i < 7: a pool of up to 7 sources has each of them selected in some     *)
(* slot, and in a longer pool the sources at index 7 and above are never  *)
(* selected.                                                               *)
Reachable7 ==
    {pool[i] : i \in 1 .. (IF Len(pool) < SLOTS THEN Len(pool) ELSE SLOTS)}

C23_SelectedIffBelowSeven ==
    /\ clock.selected \subseteq Reachable7
    /\ clock.minute = DAY_MINUTES - 1 => clock.selected = Reachable7

(* a whole day observed over a pool of more than 7 sources: the first 7   *)
(* were selected and the one at index 7 was not                            *)
C23_Witness ==
    /\ clock.minute = DAY_MINUTES - 1
    /\ Len(pool) > SLOTS
    /\ pool[SLOTS + 1] \notin clock.selected
    /\ \A i \in 1 .. SLOTS : pool[i] \in clock.selected

(* C21: under Backoff every started run ends, whatever the outcomes of    *)
(* the remote calls: the retry loop of the wrapper is left and the        *)
(* pipeline reaches its end.                                               *)
C21_BackoffRunTerminates ==
    \A p \in Procs : (policy = "Backoff" /\ Running(p)) ~> Ended(p)

(* a run under Backoff went through the fetch, the download and the      *)
(* upload and has ended with both publish calls raised                     *)
C21_Witness ==
    \E p \in Procs :
        /\ policy = "Backoff"
        /\ Ended(p)
        /\ proc[p].result = "publish_failed"
        /\ proc[p].v2 = "raised" /\ proc[p].v1 = "raised"

(* C24: in the commit the history is flushed before the cursor: at every *)
(* point of a run that published, a stop between the two writes included, *)
(* if the cursor document holds the highest id of the batch for the       *)
(* selected source then the history document holds the chosen id, the     *)
(* history save having gone through.                                       *)
C24_HistoryFlushedBeforeCursor ==
    \A p \in Procs :
        (/\ proc[p].posted # "none"
         /\ proc[p].histSaved \in {"none", "ok"}
         /\ sinceDoc.st = "ok"
         /\ DictGet(sinceDoc.val, proc[p].source_user) =
                Highest(proc[p].tweets)) =>
            /\ proc[p].histSaved = "ok"
            /\ histDoc.st = "ok"
            /\ proc[p].tid \in histDoc.val

(* between the two writes: the history document holds the chosen id and   *)
(* the cursor document does not hold the highest id of the batch yet      *)
C24_Witness ==
    \E p \in Procs :
        /\ proc[p].pc = "save_since_ids"
        /\ proc[p].posted # "none"
        /\ proc[p].histSaved = "ok"
        /\ proc[p].tid \in histDoc.val
        /\ DictGet(load_since_ids(sinceDoc), proc[p].source_user) #
               Highest(proc[p].tweets)

(* C22: once a run has committed a publish for a batch, no later         *)
(* serialized run publishes a post of that batch, the saves succeeding    *)
(* and the remote returning only posts newer than the cursor: at most one *)
(* post of a fetched batch is ever relayed.                                *)
C22_OnePostPerBatch ==
    (Committed /\ Chosen(2)) => ToInt(proc[2].tid) \notin proc[1].tweets

(* a later run for the same source found nothing above the cursor, saw    *)
(* the post the batch left unpublished in its fetch without a cursor, and *)
(* ended without publishing                                                *)
C22_Witness ==
    /\ Committed
    /\ Ended(2)
    /\ proc[2].source_user = proc[1].source_user
    /\ proc[2].fetchNo = 2
    /\ \E i \in proc[2].tweets :
           i \in proc[1].tweets /\ ToStr(i) # proc[1].tid

====
